---- MODULE Spec2Model ----
(***************************************************************************)
(* Model of the excel_generation services: the spreadsheet parser and the  *)
(* COPY + UPSERT upload pipeline of ExcelUploadService, and the export     *)
(* pipeline of ExcelGeneratorService.                                      *)
(*                                                                         *)
(* Conventions.                                                            *)
(*  - A Python / SQL scalar is a record [t, i, s]: t is the type tag       *)
(*    ("none", "bool", "int", "float", "str"), i the integer payload       *)
(*    (a bool is 0/1, a float is held in tenths), s the string payload.    *)
(*  - A Python dict is a sequence of <<key, value>> pairs in insertion     *)
(*    order with unique keys.                                              *)
(*  - A worksheet is [rows, cols, cells]: RowCount, ColumnCount and the    *)
(*    cell values by address ("A1"); the empty string is an empty cell.    *)
(*  - A database transaction (engine.begin() block) is one atomic step     *)
(*    that either commits all its statements or fails and changes nothing. *)
(***************************************************************************)
EXTENDS Integers, Sequences, FiniteSets, TLC

VARIABLES
    dest,       \* rows of the destination table: a set of [id, paid] records
    tables,     \* the staging tables that exist, by name: [cols, rows]
    tmpfiles,   \* temporary files that exist on disk
    up,         \* per-upload local state of upload_excel_to_table
    nuploads,   \* uploads started so far
    ex,         \* local state of one export request
    hist,       \* observations of the history that the properties read
    call        \* local state of one service method that runs on its own

vars == <<dest, tables, tmpfiles, up, nuploads, ex, hist, call>>

(***************************************************************************)
(* Bounds of the model                                                     *)
(***************************************************************************)
MaxDataRows == 2
MaxUploads == 2
MaxColumn == 703
MaxWriterRows == 10001
MaxTemplateRows == 2002
MaxParseRows == 3

(***************************************************************************)
(* Strings                                                                 *)
(***************************************************************************)
Digits == <<"0", "1", "2", "3", "4", "5", "6", "7", "8", "9">>

Letters ==
    <<"A", "B", "C", "D", "E", "F", "G", "H", "I", "J", "K", "L", "M",
      "N", "O", "P", "Q", "R", "S", "T", "U", "V", "W", "X", "Y", "Z">>

\* str(n) of a Python int
RECURSIVE IntStr(_)
IntStr(n) ==
    IF n < 0 THEN "-" \o IntStr(0 - n)
    ELSE IF n < 10 THEN Digits[n + 1]
    ELSE IntStr(n \div 10) \o Digits[(n % 10) + 1]

\* str(x) of a Python float held in tenths: 15 is 1.5, 20 is 2.0
FloatStr(n) ==
    IF n < 0 THEN "-" \o IntStr((0 - n) \div 10) \o "." \o Digits[((0 - n) % 10) + 1]
    ELSE IntStr(n \div 10) \o "." \o Digits[(n % 10) + 1]

\* str.strip(), on the strings the model uses: a string is either all
\* whitespace or carries no leading or trailing whitespace
Strip(s) == IF s \in {"", " ", "  "} THEN "" ELSE s

(***************************************************************************)
(* Scalars                                                                 *)
(***************************************************************************)
PyNone == [t |-> "none", i |-> 0, s |-> ""]
PyBool(b) == [t |-> "bool", i |-> IF b THEN 1 ELSE 0, s |-> ""]
PyInt(n) == [t |-> "int", i |-> n, s |-> ""]
PyFloat(n) == [t |-> "float", i |-> n, s |-> ""]
PyStr(x) == [t |-> "str", i |-> 0, s |-> x]

\* isinstance(value, types): bool is a subclass of int
IsInstance(v, types) ==
    \/ v.t \in types
    \/ v.t = "bool" /\ "int" \in types

\* str(value)
Str(v) ==
    CASE v.t = "none" -> "None"
      [] v.t = "bool" -> (IF v.i = 1 THEN "True" ELSE "False")
      [] v.t = "int" -> IntStr(v.i)
      [] v.t = "float" -> FloatStr(v.i)
      [] OTHER -> v.s

(***************************************************************************)
(* Python dicts                                                            *)
(***************************************************************************)
DictKeys(d) == [k \in 1..Len(d) |-> d[k][1]]

DictKeySet(d) == {d[k][1] : k \in 1..Len(d)}

DictGet(d, key, default) ==
    IF key \in DictKeySet(d)
    THEN d[CHOOSE k \in 1..Len(d) : d[k][1] = key][2]
    ELSE default

\* d[key] = value
DictSet(d, key, value) ==
    IF key \in DictKeySet(d)
    THEN [k \in 1..Len(d) |-> IF d[k][1] = key THEN <<key, value>> ELSE d[k]]
    ELSE Append(d, <<key, value>>)

(***************************************************************************)
(* Column letters                                                          *)
(***************************************************************************)
\* plain base 26 with A as the digit zero: the loop without col_idx -= 1
RECURSIVE LetterLoopPlainBase26(_, _)
LetterLoopPlainBase26(col_idx, result) ==
    IF col_idx > 0
    THEN LetterLoopPlainBase26(col_idx \div 26, Letters[(col_idx % 26) + 1] \o result)
    ELSE result

RECURSIVE LetterLoop(_, _)
LetterLoop(col_idx, result) ==
    IF col_idx > 0
    THEN LetterLoop((col_idx - 1) \div 26,
                    Letters[((col_idx - 1) % 26) + 1] \o result)
    ELSE result

\* ExcelUploadService._get_column_letter
Upload_get_column_letter(col_idx) == LetterLoop(col_idx + 1, "")

\* ExcelGeneratorService._get_column_letter
Generator_get_column_letter(col_idx) == LetterLoop(col_idx + 1, "")

(***************************************************************************)
(* Worksheets                                                              *)
(***************************************************************************)
\* the value of an empty cell
Blank == ""

\* the worksheet holding the grid: a sequence of rows of equal length
SheetOfGrid(grid) ==
    LET nrows == Len(grid)
        ncols == IF nrows = 0 THEN 0 ELSE Len(grid[1])
        addrs == {<<r, c>> : r \in 1..nrows, c \in 1..ncols}
    IN  [rows |-> nrows,
         cols |-> ncols,
         cells |-> [a \in {Letters[p[2]] \o IntStr(p[1]) : p \in addrs} |->
                      LET p == CHOOSE q \in addrs : Letters[q[2]] \o IntStr(q[1]) = a
                      IN  grid[p[1]][p[2]]]]

(***************************************************************************)
(* The spreadsheet parser: ExcelUploadService._read_excel_file_ironxl      *)
(***************************************************************************)
\* the first row: one entry per column, "" for a blank cell
RECURSIVE ScanHeader(_, _, _)
ScanHeader(ws, col_index, headers) ==
    IF col_index >= ws.cols THEN headers
    ELSE LET addr == Upload_get_column_letter(col_index) \o IntStr(1)
         IN  IF addr \notin DOMAIN ws.cells
             THEN ScanHeader(ws, col_index + 1, headers)
             ELSE IF Strip(ws.cells[addr]) # ""
             THEN ScanHeader(ws, col_index + 1, Append(headers, Strip(ws.cells[addr])))
             ELSE ScanHeader(ws, col_index + 1, Append(headers, ""))

\* headers = [h for h in headers if h]
FilterHeaders(headers) == SelectSeq(headers, LAMBDA h : h # "")

\* one data row: [has_data, row_data]
RECURSIVE ScanRow(_, _, _, _, _)
ScanRow(ws, row_index, col_index, headers, acc) ==
    IF col_index >= ws.cols THEN acc
    ELSE LET addr == Upload_get_column_letter(col_index) \o IntStr(row_index + 1)
         IN  IF addr \notin DOMAIN ws.cells
             THEN ScanRow(ws, row_index, col_index + 1, headers, acc)
             ELSE IF Strip(ws.cells[addr]) # ""
             THEN ScanRow(ws, row_index, col_index + 1, headers,
                    [has_data |-> TRUE,
                     row_data |->
                        IF col_index < Len(headers) /\ headers[col_index + 1] # ""
                        THEN DictSet(acc.row_data, headers[col_index + 1],
                                     Strip(ws.cells[addr]))
                        ELSE acc.row_data])
             ELSE ScanRow(ws, row_index, col_index + 1, headers, acc)

\* the rows after the first, up to the break
RECURSIVE ScanRows(_, _, _, _)
ScanRows(ws, row_index, headers, data) ==
    IF row_index >= ws.rows THEN data
    ELSE LET r == ScanRow(ws, row_index, 0, headers,
                          [has_data |-> FALSE, row_data |-> <<>>])
         IN  IF r.has_data /\ r.row_data # <<>>
             THEN ScanRows(ws, row_index + 1, headers, Append(data, r.row_data))
             ELSE IF ~r.has_data /\ Len(data) > 0
             THEN data
             ELSE ScanRows(ws, row_index + 1, headers, data)

ErrNoHeaders == "No se encontraron headers validos en el archivo Excel"
ErrNoData == "El archivo Excel esta vacio o no contiene datos validos"

\* a parser that names a blank header after its column instead of dropping it
ReadExcelNamesBlankHeaders(ws) ==
    IF ws.rows = 0
    THEN [ok |-> FALSE, rows |-> <<>>, headers |-> <<>>,
          error |-> "ValidationError", detail |-> ErrNoData]
    ELSE LET raw == ScanHeader(ws, 0, <<>>)
             headers == [k \in 1..Len(raw) |->
                            IF raw[k] = "" THEN "col" \o IntStr(k) ELSE raw[k]]
             data == ScanRows(ws, 1, headers, <<>>)
         IN  IF data = <<>>
             THEN [ok |-> FALSE, rows |-> <<>>, headers |-> headers,
                   error |-> "ValidationError", detail |-> ErrNoData]
             ELSE [ok |-> TRUE, rows |-> data, headers |-> headers,
                   error |-> "", detail |-> ""]

\* [ok, rows, headers, error, detail]: the rows returned, or the ValidationError raised
ReadExcel(ws) ==
    IF ws.rows = 0
    THEN [ok |-> FALSE, rows |-> <<>>, headers |-> <<>>,
          error |-> "ValidationError", detail |-> ErrNoData]
    ELSE LET headers == FilterHeaders(ScanHeader(ws, 0, <<>>))
         IN  IF headers = <<>>
             THEN [ok |-> FALSE, rows |-> <<>>, headers |-> headers,
                   error |-> "ValidationError", detail |-> ErrNoHeaders]
             ELSE LET data == ScanRows(ws, 1, headers, <<>>)
                  IN  IF data = <<>>
                      THEN [ok |-> FALSE, rows |-> <<>>, headers |-> headers,
                            error |-> "ValidationError", detail |-> ErrNoData]
                      ELSE [ok |-> TRUE, rows |-> data, headers |-> headers,
                            error |-> "", detail |-> ""]

(***************************************************************************)
(* The relational store                                                    *)
(***************************************************************************)
\* the destination table of every upload and export of the model
TableName == "orders"

\* its columns in ordinal position: id integer PRIMARY KEY, paid boolean
DestColumns == <<"id", "paid">>

DestColumnSet == {DestColumns[k] : k \in 1..Len(DestColumns)}

\* information_schema.columns.data_type
DestDataType(column) == IF column = "id" THEN "integer" ELSE "boolean"

\* the columns under the unique constraint that ON CONFLICT may name
DestKey == <<"id">>

SeqSet(q) == {q[k] : k \in 1..Len(q)}

ColIndex(cols, c) == CHOOSE k \in 1..Len(cols) : cols[k] = c

\* the integers whose decimal form the text-to-integer cast recognises
DecimalRange == 0..20

\* the spellings the text-to-boolean cast accepts
BoolTrueText == {"true", "True", "TRUE", "t", "yes", "y", "on", "1"}
BoolFalseText == {"false", "False", "FALSE", "f", "no", "No", "n", "off", "0"}

\* "<column>"::<type> of a text value: [ok, v]
CastText(v, type) ==
    IF v.t = "none" THEN [ok |-> TRUE, v |-> PyNone]
    ELSE CASE type \in {"integer", "bigint", "smallint"} ->
                IF \E n \in DecimalRange : IntStr(n) = v.s
                THEN [ok |-> TRUE,
                      v |-> PyInt(CHOOSE n \in DecimalRange : IntStr(n) = v.s)]
                ELSE [ok |-> FALSE, v |-> PyNone]
           [] type = "boolean" ->
                IF v.s \in BoolTrueText THEN [ok |-> TRUE, v |-> PyBool(TRUE)]
                ELSE IF v.s \in BoolFalseText THEN [ok |-> TRUE, v |-> PyBool(FALSE)]
                ELSE [ok |-> FALSE, v |-> PyNone]
           [] OTHER -> [ok |-> TRUE, v |-> PyStr(v.s)]

\* ExcelUploadService._get_column_db_type
pg_types ==
    [d \in {"integer", "bigint", "smallint", "numeric", "double precision", "real",
            "boolean", "date", "timestamp without time zone",
            "timestamp with time zone", "character varying", "character", "text"} |->
        CASE d = "timestamp without time zone" -> "timestamp"
          [] d = "timestamp with time zone" -> "timestamptz"
          [] d = "character varying" -> "varchar"
          [] d = "character" -> "char"
          [] OTHER -> d]

get_column_db_type(table_name, column) ==
    IF table_name # TableName \/ column \notin DestColumnSet
    THEN "text"
    ELSE IF DestDataType(column) \in DOMAIN pg_types
    THEN pg_types[DestDataType(column)]
    ELSE "text"

\* a table with no column and no row
NoTable == [cols |-> <<>>, rows |-> <<>>]

\* a staging name made unique by the number of the request
StagingNamePerRequest(table_name) ==
    "staging_" \o table_name \o "_upsert_" \o IntStr(nuploads)

\* f'staging_{table_name}_upsert'
StagingName(table_name) == "staging_" \o table_name \o "_upsert"

(***************************************************************************)
(* The intermediate CSV and COPY                                           *)
(***************************************************************************)
\* a writer made with extrasaction='ignore': no key is an error
CsvExtrasIgnored(rows, fieldnames) == FALSE

\* csv.DictWriter(fieldnames).writerows(rows): a key outside fieldnames
\* raises ValueError, a missing key is written as the empty string
CsvExtras(rows, fieldnames) ==
    \E r \in 1..Len(rows) : ~(DictKeySet(rows[r]) \subseteq SeqSet(fieldnames))

CsvLines(rows, fieldnames) ==
    [r \in 1..Len(rows) |->
        [k \in 1..Len(fieldnames) |-> DictGet(rows[r], fieldnames[k], "")]]

\* COPY ... FROM STDIN WITH (FORMAT CSV, HEADER TRUE): an unquoted empty
\* field is NULL; a column of the table outside the column list is NULL
CopyRow(stg, fieldnames, line) ==
    [c \in 1..Len(stg.cols) |->
        IF stg.cols[c] \in SeqSet(fieldnames)
        THEN LET f == line[ColIndex(fieldnames, stg.cols[c])]
             IN  IF f = "" THEN PyNone ELSE PyStr(f)
        ELSE PyNone]

CopyFails(tbls, name, fieldnames) ==
    \/ name \notin DOMAIN tbls
    \/ ~(SeqSet(fieldnames) \subseteq SeqSet(tbls[name].cols))

CopyInto(stg, fieldnames, lines) ==
    [stg EXCEPT !.rows = @ \o [r \in 1..Len(lines) |-> CopyRow(stg, fieldnames, lines[r])]]

(***************************************************************************)
(* The merge: INSERT ... SELECT <casts> FROM staging ON CONFLICT DO UPDATE *)
(***************************************************************************)
\* update_cols = [col for col in fieldnames if col not in conflict_columns]
UpdateCols(fieldnames, conflict_columns) ==
    SelectSeq(fieldnames, LAMBDA c : c \notin SeqSet(conflict_columns))

\* SELECT "<col>"::<type> for every staged row: a sequence of [col -> [ok, v]]
CastRows(stg, fieldnames) ==
    [r \in 1..Len(stg.rows) |->
        [c \in SeqSet(fieldnames) |->
            CastText(stg.rows[r][ColIndex(stg.cols, c)],
                     get_column_db_type(TableName, c))]]

\* the row proposed for insertion: columns outside the list take NULL
Proposed(casted, fieldnames) ==
    [c \in DestColumnSet |-> IF c \in SeqSet(fieldnames) THEN casted[c].v ELSE PyNone]

KeyOf(row, key) == [k \in 1..Len(key) |-> row[key[k]]]

\* the statement is rejected by the store, and the transaction rolls back
MergeFails(tbls, name, fieldnames, conflict_columns) ==
    \/ name \notin DOMAIN tbls
    \/ ~(SeqSet(fieldnames) \subseteq SeqSet(tbls[name].cols))
    \/ ~(SeqSet(fieldnames) \subseteq DestColumnSet)
    \/ conflict_columns # DestKey
    \/ UpdateCols(fieldnames, conflict_columns) = <<>>
    \/ LET c == CastRows(tbls[name], fieldnames)
           p == [r \in 1..Len(c) |-> Proposed(c[r], fieldnames)]
       IN  \/ \E r \in 1..Len(c) : \E col \in SeqSet(fieldnames) : ~c[r][col].ok
           \/ \E r \in 1..Len(p) : \E k \in 1..Len(DestKey) : p[r][DestKey[k]].t = "none"
           \/ \E r1, r2 \in 1..Len(p) : r1 # r2 /\ KeyOf(p[r1], DestKey) = KeyOf(p[r2], DestKey)

\* an INSERT without the ON CONFLICT clause on a table without the constraint
UpsertRowInsertOnly(rows, p, update_cols) == rows \cup {p}

\* one proposed row: inserted, or on conflict the update columns overwritten
UpsertRow(rows, p, update_cols) ==
    IF \E old \in rows : KeyOf(old, DestKey) = KeyOf(p, DestKey)
    THEN {IF KeyOf(old, DestKey) = KeyOf(p, DestKey)
          THEN [c \in DestColumnSet |-> IF c \in SeqSet(update_cols) THEN p[c] ELSE old[c]]
          ELSE old : old \in rows}
    ELSE rows \cup {p}

RECURSIVE UpsertAll(_, _, _, _)
UpsertAll(rows, proposed, k, update_cols) ==
    IF k > Len(proposed) THEN rows
    ELSE UpsertAll(UpsertRow(rows, proposed[k], update_cols), proposed, k + 1, update_cols)

\* the destination after the merge statement commits
Merge(rows, stg, fieldnames, conflict_columns) ==
    LET c == CastRows(stg, fieldnames)
        p == [r \in 1..Len(c) |-> Proposed(c[r], fieldnames)]
    IN  UpsertAll(rows, p, 1, UpdateCols(fieldnames, conflict_columns))

\* a merge that is not one transaction: the rows before the rejected one stay
MergeAbortedPartial(rows, tbls, name, fieldnames, conflict_columns) ==
    IF /\ name \in DOMAIN tbls
       /\ SeqSet(fieldnames) \subseteq SeqSet(tbls[name].cols)
       /\ SeqSet(fieldnames) \subseteq DestColumnSet
       /\ Len(tbls[name].rows) > 1
       /\ LET c == CastRows(tbls[name], fieldnames)
          IN  /\ \A col \in SeqSet(fieldnames) : c[1][col].ok
              /\ \A k \in 1..Len(DestKey) : Proposed(c[1], fieldnames)[DestKey[k]].t # "none"
    THEN UpsertRow(rows, Proposed(CastRows(tbls[name], fieldnames)[1], fieldnames),
                   UpdateCols(fieldnames, conflict_columns))
    ELSE rows

\* the destination after the merge transaction fails: it rolls back
MergeAborted(rows, tbls, name, fieldnames, conflict_columns) == rows

(***************************************************************************)
(* Exceptions                                                              *)
(***************************************************************************)
\* utils/error_handling.py, and the built-in and driver exceptions
BaseClass(cls) ==
    CASE cls \in {"ValidationError", "DatabaseError", "TemplateError"} -> "ExcelGenerationError"
      [] cls \in {"ExcelGenerationError", "ValueError", "DBAPIError", "OSError"} -> "Exception"
      [] OTHER -> "BaseException"

RECURSIVE IsSubclass(_, _)
IsSubclass(cls, base) ==
    \/ cls = base
    \/ cls # "BaseException" /\ IsSubclass(BaseClass(cls), base)

Exc(cls, msg) == [cls |-> cls, msg |-> msg]

(***************************************************************************)
(* upload_excel_to_table                                                   *)
(***************************************************************************)
Uploaders == {1, 2}

\* the conflict_columns the controller passes
ConflictColumns == <<"id">>

NoResult == [success |-> FALSE, message |-> "", rows_processed |-> 0, errors |-> <<>>]

\* the local state of an upload that has not started; errors <<>> is None
IdleUpload(ws) ==
    [pc |-> "idle", file |-> ws, rows |-> <<>>, fieldnames |-> <<>>,
     csv_path |-> "", outcome |-> "", caught |-> "", result |-> NoResult]

\* an except clause that names the service's own exception class only
UploadExceptOwnErrors(s, e) ==
    IF IsSubclass(e.cls, "ExcelGenerationError")
    THEN [s EXCEPT !.pc = "done", !.outcome = "returned", !.caught = e.cls,
                   !.result = [success |-> FALSE,
                               message |-> "Error en carga COPY+upsert: " \o e.msg,
                               rows_processed |-> 0,
                               errors |-> <<e.msg>>]]
    ELSE [s EXCEPT !.pc = "done", !.outcome = "raised"]

\* the except clause of upload_excel_to_table: what the caller gets for e
UploadExcept(s, e) ==
    IF IsSubclass(e.cls, "Exception")
    THEN [s EXCEPT !.pc = "done", !.outcome = "returned", !.caught = e.cls,
                   !.result = [success |-> FALSE,
                               message |-> "Error en carga COPY+upsert: " \o e.msg,
                               rows_processed |-> 0,
                               errors |-> <<e.msg>>]]
    ELSE [s EXCEPT !.pc = "done", !.outcome = "raised"]

\* the return of the success path
UploadReturn(s) ==
    [s EXCEPT !.pc = "done", !.outcome = "returned",
              !.result = [success |-> TRUE,
                          message |-> "Archivo cargado y upsert masivo realizado con COPY ("
                                        \o IntStr(Len(s.rows)) \o " filas)",
                          rows_processed |-> Len(s.rows),
                          errors |-> <<>>]]

CsvName(u, n) == "csv_" \o IntStr(u) \o "_" \o IntStr(n)

\* the caller invokes upload_excel_to_table
StartUpload(u) ==
    /\ up[u].pc = "idle"
    /\ nuploads < MaxUploads
    /\ nuploads' = nuploads + 1
    /\ up' = [up EXCEPT ![u].pc = "read"]
    /\ hist' = [hist EXCEPT !.start[u] = dest, !.staged[u] = FALSE,
                            !.created[u] = FALSE, !.merged[u] = FALSE,
                            !.fault[u] = FALSE, !.read[u] = NoTable]
    /\ UNCHANGED <<dest, tables, tmpfiles, ex, call>>

\* 1. rows = self._read_excel_file_ironxl(excel_data); fieldnames
ReadFile(u) ==
    /\ up[u].pc = "read"
    /\ LET r == ReadExcel(up[u].file)
       IN  IF ~r.ok
           THEN up' = [up EXCEPT ![u] =
                  UploadExcept(@, Exc(r.error, "Error leyendo archivo Excel: " \o r.detail))]
           ELSE up' = [up EXCEPT ![u].pc = "csv", ![u].rows = r.rows,
                                 ![u].fieldnames = DictKeys(r.rows[1])]
    /\ UNCHANGED <<dest, tables, tmpfiles, nuploads, ex, hist, call>>

\* 2. the temporary CSV: created, then written by csv.DictWriter
WriteCsv(u) ==
    /\ up[u].pc = "csv"
    /\ tmpfiles' = tmpfiles \cup {CsvName(u, nuploads)}
    /\ IF CsvExtras(up[u].rows, up[u].fieldnames)
       THEN up' = [up EXCEPT ![u] =
              UploadExcept(@, Exc("ValueError", "dict contains fields not in fieldnames"))]
       ELSE up' = [up EXCEPT ![u].pc = "stage", ![u].csv_path = CsvName(u, nuploads)]
    /\ UNCHANGED <<dest, tables, nuploads, ex, hist, call>>

\* a step 3 without the DROP: CREATE TABLE IF NOT EXISTS keeps a table found
CreateStagingIfAbsent(u) ==
    /\ up[u].pc = "stage"
    /\ \/ /\ tables' = IF StagingName(TableName) \in DOMAIN tables THEN tables
                        ELSE (StagingName(TableName) :>
                                [cols |-> up[u].fieldnames, rows |-> <<>>]) @@ tables
          /\ up' = [up EXCEPT ![u].pc = "copy"]
          /\ hist' = [hist EXCEPT !.staged[u] = TRUE, !.created[u] = TRUE]
       \/ /\ up' = [up EXCEPT ![u] = UploadExcept(@, Exc("DBAPIError", "staging create failed"))]
          /\ hist' = [hist EXCEPT !.fault[u] = TRUE]
          /\ UNCHANGED tables
    /\ UNCHANGED <<dest, tmpfiles, nuploads, ex, call>>

\* 3. DROP TABLE IF EXISTS and CREATE TABLE of the staging table, one transaction
CreateStaging(u) ==
    /\ up[u].pc = "stage"
    /\ \/ /\ tables' = (StagingName(TableName) :>
                          [cols |-> up[u].fieldnames, rows |-> <<>>]) @@ tables
          /\ up' = [up EXCEPT ![u].pc = "copy"]
          /\ hist' = [hist EXCEPT !.staged[u] = TRUE, !.created[u] = TRUE]
       \/ /\ up' = [up EXCEPT ![u] = UploadExcept(@, Exc("DBAPIError", "staging create failed"))]
          /\ hist' = [hist EXCEPT !.fault[u] = TRUE]
          /\ UNCHANGED tables
    /\ UNCHANGED <<dest, tmpfiles, nuploads, ex, call>>

\* 4. COPY of the CSV into the staging table, one transaction
CopyToStaging(u) ==
    /\ up[u].pc = "copy"
    /\ \/ /\ ~CopyFails(tables, StagingName(TableName), up[u].fieldnames)
          /\ tables' = [tables EXCEPT ![StagingName(TableName)] =
                          CopyInto(@, up[u].fieldnames,
                                   CsvLines(up[u].rows, up[u].fieldnames))]
          /\ up' = [up EXCEPT ![u].pc = "merge"]
          /\ UNCHANGED hist
       \/ /\ up' = [up EXCEPT ![u] = UploadExcept(@, Exc("DBAPIError", "COPY failed"))]
          /\ hist' = [hist EXCEPT !.fault[u] =
                        ~CopyFails(tables, StagingName(TableName), up[u].fieldnames)]
          /\ UNCHANGED tables
    /\ UNCHANGED <<dest, tmpfiles, nuploads, ex, call>>

\* 5. the type lookups and the INSERT ... ON CONFLICT statement, one transaction
Upsert(u) ==
    /\ up[u].pc = "merge"
    /\ \/ /\ ~MergeFails(tables, StagingName(TableName), up[u].fieldnames, ConflictColumns)
          /\ dest' = Merge(dest, tables[StagingName(TableName)], up[u].fieldnames,
                           ConflictColumns)
          /\ up' = [up EXCEPT ![u].pc = "drop"]
          /\ hist' = [hist EXCEPT !.merged[u] = TRUE,
                                  !.read[u] = tables[StagingName(TableName)]]
       \/ /\ up' = [up EXCEPT ![u] = UploadExcept(@, Exc("DBAPIError", "merge failed"))]
          /\ dest' = MergeAborted(dest, tables, StagingName(TableName), up[u].fieldnames,
                                  ConflictColumns)
          /\ hist' = [hist EXCEPT !.fault[u] =
                        ~MergeFails(tables, StagingName(TableName), up[u].fieldnames,
                                    ConflictColumns)]
    /\ UNCHANGED <<tables, tmpfiles, nuploads, ex, call>>

\* 6. and 7. DROP TABLE IF EXISTS, then the unlink of the CSV and the return
DropStaging(u) ==
    /\ up[u].pc = "drop"
    /\ \/ /\ tables' = [n \in DOMAIN tables \ {StagingName(TableName)} |-> tables[n]]
          /\ tmpfiles' = tmpfiles \ {up[u].csv_path}
          /\ up' = [up EXCEPT ![u] = UploadReturn(@)]
          /\ UNCHANGED hist
       \/ /\ up' = [up EXCEPT ![u] = UploadExcept(@, Exc("DBAPIError", "staging drop failed"))]
          /\ hist' = [hist EXCEPT !.fault[u] = TRUE]
          /\ UNCHANGED <<tables, tmpfiles>>
    /\ UNCHANGED <<dest, nuploads, ex, call>>

\* the caller uploads the same file again
UploadAgain(u) ==
    /\ up[u].pc = "done"
    /\ nuploads < MaxUploads
    /\ hist' = [hist EXCEPT !.prev = [valid |-> TRUE,
                                      success |-> up[u].result.success,
                                      outcome |-> up[u].outcome,
                                      dest |-> dest]]
    /\ up' = [up EXCEPT ![u] = IdleUpload(up[u].file)]
    /\ UNCHANGED <<dest, tables, tmpfiles, nuploads, ex, call>>

(***************************************************************************)
(* The relational gateway: utils/db.py                                     *)
(***************************************************************************)
RowLimit == 200000

\* DatabaseManager.get_table_columns: the columns, or DatabaseError
get_table_columns(table_name) ==
    IF table_name = TableName
    THEN [ok |-> TRUE, columns |-> DestColumns, exc |-> Exc("", "")]
    ELSE [ok |-> FALSE, columns |-> <<>>,
          exc |-> Exc("DatabaseError",
                      "Error accediendo a tabla: Tabla '" \o table_name \o "' no encontrada")]

\* the WHERE clause of fetch_data: a None filter value is left out
FilterActive(filters) == SelectSeq(filters, LAMBDA f : f[2].t # "none")

\* "<key>" = :key, with SQL's NULL never equal to anything
RowMatches(row, filters) ==
    \A k \in 1..Len(FilterActive(filters)) :
        LET f == FilterActive(filters)[k]
        IN  row[f[1]].t # "none" /\ row[f[1]] = f[2]

\* the statement is rejected: the table or a column it names does not exist
FetchFails(table_name, fields, filters) ==
    \/ table_name # TableName
    \/ fields = <<>>
    \/ ~(SeqSet(fields) \subseteq DestColumnSet)
    \/ \E k \in 1..Len(FilterActive(filters)) : FilterActive(filters)[k][1] \notin DestColumnSet

\* dict(zip(columns, row)) of one fetched row
RECURSIVE RowDict(_, _, _, _)
RowDict(row, fields, k, d) ==
    IF k > Len(fields) THEN d
    ELSE RowDict(row, fields, k + 1, DictSet(d, fields[k], row[fields[k]]))

\* the orders in which the store may return a set of rows
Orderings(rows) ==
    {q \in [1..Cardinality(rows) -> rows] : \A i, j \in 1..Cardinality(rows) : i # j => q[i] # q[j]}

\* DatabaseManager.fetch_data: the matching rows in the order q, up to LIMIT
fetch_data(q, fields, filters) ==
    LET m == SelectSeq(q, LAMBDA row : RowMatches(row, filters))
        n == IF Len(m) < RowLimit THEN Len(m) ELSE RowLimit
    IN  [r \in 1..n |-> RowDict(m[r], fields, 1, <<>>)]

(***************************************************************************)
(* The export writer: services/generator_service.py                        *)
(***************************************************************************)
ClearRowLimit == 2000
ClearMinScan == 15
FastChunk == 10000
SlowChunk == 1000

\* ExcelGeneratorService._format_cell_value
format_cell_value(value) ==
    IF value.t = "none" THEN ""
    ELSE IF IsInstance(value, {"int", "float"}) THEN Str(value)
    ELSE IF IsInstance(value, {"bool"}) THEN (IF value.i = 1 THEN "Sí" ELSE "No")
    ELSE Str(value)

EmptySheet == [rows |-> 0, cols |-> 0, cells |-> <<>>]

\* worksheet[address].Value: a cell never written is empty
CellValue(ws, address) == IF address \in DOMAIN ws.cells THEN ws.cells[address] ELSE Blank

\* worksheet[address].Value = value, at column index col_idx of row row
SetCell(ws, col_idx, row, address, value) ==
    [rows |-> IF row > ws.rows THEN row ELSE ws.rows,
     cols |-> IF col_idx + 1 > ws.cols THEN col_idx + 1 ELSE ws.cols,
     cells |-> (address :> value) @@ ws.cells]

\* one row of _clear_data_preserve_format: [ws, all_empty]
RECURSIVE ClearRow(_, _, _, _, _)
ClearRow(ws, row_index, col_index, num_columns, all_empty) ==
    IF col_index >= num_columns THEN [ws |-> ws, all_empty |-> all_empty]
    ELSE LET address == Generator_get_column_letter(col_index) \o IntStr(row_index + 1)
         IN  IF CellValue(ws, address) # ""
             THEN ClearRow(SetCell(ws, col_index, row_index + 1, address, ""),
                           row_index, col_index + 1, num_columns, FALSE)
             ELSE ClearRow(ws, row_index, col_index + 1, num_columns, all_empty)

\* ExcelGeneratorService._clear_data_preserve_format
RECURSIVE ClearLoop(_, _, _)
ClearLoop(ws, row_index, num_columns) ==
    IF row_index >= ClearRowLimit THEN ws
    ELSE LET r == ClearRow(ws, row_index, 0, num_columns, TRUE)
         IN  IF r.all_empty /\ row_index > ClearMinScan THEN r.ws
             ELSE ClearLoop(r.ws, row_index + 1, num_columns)

clear_data_preserve_format(ws, num_columns) == ClearLoop(ws, 1, num_columns)

\* the header row of _write_data_to_worksheet
RECURSIVE WriteHeaders(_, _, _)
WriteHeaders(ws, fields, col_idx) ==
    IF col_idx >= Len(fields) THEN ws
    ELSE WriteHeaders(SetCell(ws, col_idx, 1,
                              Generator_get_column_letter(col_idx) \o IntStr(1),
                              fields[col_idx + 1]),
                      fields, col_idx + 1)

\* the cells of one data row
RECURSIVE WriteRow(_, _, _, _, _)
WriteRow(ws, row_data, fields, row_idx, col_idx) ==
    IF col_idx >= Len(fields) THEN ws
    ELSE WriteRow(SetCell(ws, col_idx, row_idx,
                          Generator_get_column_letter(col_idx) \o IntStr(row_idx),
                          format_cell_value(DictGet(row_data, fields[col_idx + 1], PyStr("")))),
                  row_data, fields, row_idx, col_idx + 1)

\* the rows of one chunk: [ws, row_idx]
RECURSIVE WriteChunk(_, _, _, _, _)
WriteChunk(ws, chunk, fields, k, row_idx) ==
    IF k > Len(chunk) THEN [ws |-> ws, row_idx |-> row_idx]
    ELSE WriteChunk(WriteRow(ws, chunk[k], fields, row_idx, 0), chunk, fields,
                    k + 1, row_idx + 1)

\* for i in range(0, len(data), chunk_size)
RECURSIVE WriteChunks(_, _, _, _, _, _)
WriteChunks(ws, data, fields, chunk_size, i, row_idx) ==
    IF i >= Len(data) THEN ws
    ELSE LET last == IF i + chunk_size < Len(data) THEN i + chunk_size ELSE Len(data)
             w == WriteChunk(ws, SubSeq(data, i + 1, last), fields, 1, row_idx)
         IN  WriteChunks(w.ws, data, fields, chunk_size, i + chunk_size, w.row_idx)

\* ExcelGeneratorService._write_data_to_worksheet
write_data_to_worksheet(ws, data, fields, fast_mode) ==
    WriteChunks(WriteHeaders(ws, fields, 0), data, fields,
                IF fast_mode THEN FastChunk ELSE SlowChunk, 0, 2)

\* the worksheet _create_excel_file saves: template is [exists, ws]
create_excel_file(data, fields, template) ==
    write_data_to_worksheet(
        IF template.exists
        THEN clear_data_preserve_format(template.ws, Len(fields))
        ELSE EmptySheet,
        data, fields, TRUE)

(***************************************************************************)
(* generate_excel and generate_full_table_excel                            *)
(***************************************************************************)
\* str(list) of a list of field names
RECURSIVE ListItems(_, _)
ListItems(q, k) ==
    IF k > Len(q) THEN ""
    ELSE (IF k > 1 THEN ", " ELSE "") \o "'" \o q[k] \o "'" \o ListItems(q, k + 1)

ListRepr(q) == "[" \o ListItems(q, 1) \o "]"

\* invalid_fields = [field for field in fields if field not in table_columns]
InvalidFields(fields, table_columns) ==
    SelectSeq(fields, LAMBDA f : f \notin SeqSet(table_columns))

\* ExcelGeneratorService._validate_fields: the exception raised, or none
validate_fields(table, fields) ==
    LET c == get_table_columns(table)
    IN  IF ~c.ok
        THEN [ok |-> FALSE,
              exc |-> Exc("ExcelGenerationError", "Error validando campos: " \o c.exc.msg)]
        ELSE IF InvalidFields(fields, c.columns) # <<>>
        THEN [ok |-> FALSE,
              exc |-> Exc("ExcelGenerationError",
                          "Campos inválidos para tabla " \o table \o ": "
                            \o ListRepr(InvalidFields(fields, c.columns)))]
        ELSE [ok |-> TRUE, exc |-> Exc("", "")]

NoTemplate == [exists |-> FALSE, ws |-> EmptySheet]

IdleExport ==
    [pc |-> "idle", kind |-> "", table |-> "", fields |-> <<>>, filters |-> <<>>,
     template |-> NoTemplate, data |-> <<>>, outcome |-> "",
     error |-> Exc("", ""), fetches |-> 0, workbooks |-> 0, bytes |-> EmptySheet]

\* the except clause of generate_excel and of generate_full_table_excel
ExportExcept(s, prefix, e) ==
    [s EXCEPT !.pc = "done", !.outcome = "raised",
              !.error = Exc("ExcelGenerationError", prefix \o e.msg)]

ExportPrefix(s) ==
    IF s.kind = "fields" THEN "Error generando Excel: "
    ELSE "Error generando Excel de tabla completa: "

\* the requests of the model
RequestTables == {TableName, "nosuch"}
RequestFieldNames == {"id", "paid", "zz"}
RequestFields == UNION {[1..n -> RequestFieldNames] : n \in 1..2}
RequestFilters == {<<>>, <<<<"paid", PyBool(TRUE)>>>>, <<<<"paid", PyNone>>>>}

\* the template files: absent, or a styled sheet with a header and stale cells
Templates ==
    {NoTemplate,
     [exists |-> TRUE, ws |-> SheetOfGrid(<<<<"old", "head">>, <<"9", "stale">>>>)]}

\* the caller invokes generate_excel(table, fields, filters, template)
StartExport ==
    /\ ex.pc = "idle"
    /\ \E t \in RequestTables, f \in RequestFields, w \in RequestFilters, tpl \in Templates :
          ex' = [IdleExport EXCEPT !.pc = "validate", !.kind = "fields", !.table = t,
                                   !.fields = f, !.filters = w, !.template = tpl]
    /\ UNCHANGED <<dest, tables, tmpfiles, up, nuploads, hist, call>>

\* the caller invokes generate_full_table_excel(table, template)
StartFullExport ==
    /\ ex.pc = "idle"
    /\ \E t \in RequestTables, tpl \in Templates :
          ex' = [IdleExport EXCEPT !.pc = "columns", !.kind = "full", !.table = t,
                                   !.template = tpl]
    /\ UNCHANGED <<dest, tables, tmpfiles, up, nuploads, hist, call>>

\* await self._validate_fields(table, fields)
ValidateFields ==
    /\ ex.pc = "validate"
    /\ LET v == validate_fields(ex.table, ex.fields)
       IN  IF v.ok
           THEN ex' = [ex EXCEPT !.pc = "fetch"]
           ELSE ex' = ExportExcept(ex, ExportPrefix(ex), v.exc)
    /\ UNCHANGED <<dest, tables, tmpfiles, up, nuploads, hist, call>>

\* fields = await self.db_manager.get_table_columns(table)
FullColumns ==
    /\ ex.pc = "columns"
    /\ LET c == get_table_columns(ex.table)
       IN  IF c.ok
           THEN ex' = [ex EXCEPT !.pc = "fetch", !.fields = c.columns]
           ELSE ex' = ExportExcept(ex, ExportPrefix(ex), c.exc)
    /\ UNCHANGED <<dest, tables, tmpfiles, up, nuploads, hist, call>>

\* data = await self._fetch_data(table, fields, filters or {})
FetchData ==
    /\ ex.pc = "fetch"
    /\ \/ /\ ~FetchFails(ex.table, ex.fields, ex.filters)
          /\ \E q \in Orderings(dest) :
                ex' = [ex EXCEPT !.pc = "create", !.fetches = @ + 1,
                                 !.data = fetch_data(q, ex.fields, ex.filters)]
       \/ ex' = [ExportExcept(ex, ExportPrefix(ex),
                              Exc("ExcelGenerationError", "Error obteniendo datos: Error en consulta"))
                   EXCEPT !.fetches = @ + 1]
    /\ UNCHANGED <<dest, tables, tmpfiles, up, nuploads, hist, call>>

\* excel_buffer = await self._create_excel_file(data, fields, template)
CreateExcelFile ==
    /\ ex.pc = "create"
    /\ \/ /\ ex' = [ex EXCEPT !.pc = "done", !.outcome = "returned", !.workbooks = @ + 1,
                              !.bytes = create_excel_file(ex.data, ex.fields, ex.template)]
          /\ UNCHANGED tmpfiles
       \/ /\ ex' = [ExportExcept(ex, ExportPrefix(ex),
                                 Exc("ExcelGenerationError",
                                     "Error creando Excel: Error saving Excel to bytes"))
                      EXCEPT !.workbooks = @ + 1]
          /\ tmpfiles' = tmpfiles \cup {"xlsx_export"}
    /\ UNCHANGED <<dest, tables, up, nuploads, hist, call>>

(***************************************************************************)
(* Initial states                                                          *)
(***************************************************************************)
\* the grids of ncols columns: none, or a header row and up to maxdata rows
Grids(ncols, maxdata, hcells, dcells) ==
    {<<>>} \cup
    {<<h>> \o d : h \in [1..ncols -> hcells],
                  d \in UNION {[1..n -> [1..ncols -> dcells]] : n \in 0..maxdata}}

HeaderCells == {"", "id", "paid"}
DataCells == {"", "1", "2"}

\* the uploaded files: as wide as the destination table
UploadSheets ==
    {SheetOfGrid(g) : g \in Grids(Len(DestColumns), MaxDataRows, HeaderCells, DataCells)}

InitIds == {1, 2}

\* the contents of the destination table: the ids are unique
DestStates ==
    {S \in SUBSET {[id |-> PyInt(n), paid |-> p] :
                      n \in InitIds, p \in {PyNone, PyBool(TRUE), PyBool(FALSE)}} :
        \A r1, r2 \in S : r1.id = r2.id => r1 = r2}

NoHist ==
    [start |-> [u \in Uploaders |-> {}],
     staged |-> [u \in Uploaders |-> FALSE],
     created |-> [u \in Uploaders |-> FALSE],
     merged |-> [u \in Uploaders |-> FALSE],
     fault |-> [u \in Uploaders |-> FALSE],
     read |-> [u \in Uploaders |-> NoTable],
     prev |-> [valid |-> FALSE, success |-> FALSE, outcome |-> "", dest |-> {}],
     orig |-> [valid |-> FALSE, rows |-> {}]]

\* no service method runs on its own
NoCall == [pc |-> "none"]

\* one client uploads a file to the destination table, then the same file again
Init ==
    /\ dest \in DestStates
    /\ tables = <<>>
    /\ tmpfiles = {}
    /\ \E ws \in UploadSheets : up = [u \in Uploaders |-> IdleUpload(ws)]
    /\ nuploads = 0
    /\ ex = IdleExport
    /\ hist = NoHist
    /\ call = NoCall

Next ==
    \/ StartUpload(1)
    \/ ReadFile(1)
    \/ WriteCsv(1)
    \/ CreateStaging(1)
    \/ CopyToStaging(1)
    \/ Upsert(1)
    \/ DropStaging(1)
    \/ UploadAgain(1)

Spec == Init /\ [][Next]_vars

\* the exported workbook is uploaded into an empty table of the same schema
Reimport ==
    /\ ex.pc = "done" /\ ex.outcome = "returned" /\ ex.kind = "full"
    /\ ~hist.orig.valid
    /\ hist' = [hist EXCEPT !.orig = [valid |-> TRUE, rows |-> dest]]
    /\ dest' = {}
    /\ up' = [up EXCEPT ![1] = IdleUpload(ex.bytes)]
    /\ UNCHANGED <<tables, tmpfiles, nuploads, ex, call>>

\* one export request, and the upload of what a full-table export produced
InitExport ==
    /\ dest \in DestStates
    /\ tables = <<>>
    /\ tmpfiles = {}
    /\ up = [u \in Uploaders |-> IdleUpload(EmptySheet)]
    /\ nuploads = 0
    /\ ex = IdleExport
    /\ hist = NoHist
    /\ call = NoCall

NextExport ==
    \/ StartExport
    \/ StartFullExport
    \/ ValidateFields
    \/ FullColumns
    \/ FetchData
    \/ CreateExcelFile
    \/ Reimport
    \/ hist.orig.valid /\ StartUpload(1)
    \/ ReadFile(1)
    \/ WriteCsv(1)
    \/ CreateStaging(1)
    \/ CopyToStaging(1)
    \/ Upsert(1)
    \/ DropStaging(1)

SpecExport == InitExport /\ [][NextExport]_vars

\* the files of two clients that upload to the same table at the same time
RaceSheets ==
    {SheetOfGrid(<<<<"id", "paid">>, <<i, p>>>>) : i \in {"1", "2"}, p \in {"", "1"}}

InitRace ==
    /\ dest \in {{}, {[id |-> PyInt(1), paid |-> PyBool(FALSE)]}}
    /\ tables = <<>>
    /\ tmpfiles = {}
    /\ \E w1, w2 \in RaceSheets :
          up = [u \in Uploaders |-> IF u = 1 THEN IdleUpload(w1) ELSE IdleUpload(w2)]
    /\ nuploads = 0
    /\ ex = IdleExport
    /\ hist = NoHist
    /\ call = NoCall

NextRace ==
    \E u \in Uploaders :
        \/ StartUpload(u)
        \/ ReadFile(u)
        \/ WriteCsv(u)
        \/ CreateStaging(u)
        \/ CopyToStaging(u)
        \/ Upsert(u)
        \/ DropStaging(u)

SpecRace == InitRace /\ [][NextRace]_vars

\* the request is cancelled while it waits for the store at step 3, 5 or 6:
\* CancelledError is no Exception, the except clause does not catch it
Cancel(u) ==
    /\ up[u].pc \in {"stage", "merge", "drop"}
    /\ up' = [up EXCEPT ![u] = UploadExcept(@, Exc("CancelledError", ""))]
    /\ UNCHANGED <<dest, tables, tmpfiles, nuploads, ex, hist, call>>

\* the files of two uploads to the same table, one after the other: the
\* columns in either order or the key column alone, a row that merges or not
SeqSheets ==
    {SheetOfGrid(<<h, d>>) : h \in {<<"id", "paid">>, <<"paid", "id">>, <<"id", "">>},
                             d \in {<<"1", "1">>, <<"2", "2">>}}

InitSeq ==
    /\ dest \in {{}, {[id |-> PyInt(1), paid |-> PyBool(FALSE)]}}
    /\ tables = <<>>
    /\ tmpfiles = {}
    /\ \E w1, w2 \in SeqSheets :
          up = [u \in Uploaders |-> IF u = 1 THEN IdleUpload(w1) ELSE IdleUpload(w2)]
    /\ nuploads = 0
    /\ ex = IdleExport
    /\ hist = NoHist
    /\ call = NoCall

\* the second upload starts after the first one has ended
NextSeq ==
    \/ StartUpload(1)
    \/ up[1].pc = "done" /\ StartUpload(2)
    \/ \E u \in Uploaders :
          \/ ReadFile(u)
          \/ WriteCsv(u)
          \/ CreateStaging(u)
          \/ CopyToStaging(u)
          \/ Upsert(u)
          \/ DropStaging(u)
          \/ Cancel(u)

SpecSeq == InitSeq /\ [][NextSeq]_vars

(***************************************************************************)
(* Service methods on their own                                            *)
(***************************************************************************)
\* the rest of the system while one service method runs on its own
Quiet ==
    /\ dest = {}
    /\ tables = <<>>
    /\ tmpfiles = {}
    /\ up = [u \in Uploaders |-> IdleUpload(EmptySheet)]
    /\ nuploads = 0
    /\ ex = IdleExport
    /\ hist = NoHist

\* a column index, and the label each service's _get_column_letter returns
InitLetters ==
    /\ Quiet
    /\ \E i \in 0..MaxColumn :
          call = [pc |-> "letters", col_idx |-> i, writer |-> "", parser |-> ""]

\* ExcelGeneratorService._get_column_letter(col_idx)
GeneratorColumnLetter ==
    /\ call.pc = "letters" /\ call.writer = ""
    /\ call' = [call EXCEPT !.writer = Generator_get_column_letter(call.col_idx)]
    /\ UNCHANGED <<dest, tables, tmpfiles, up, nuploads, ex, hist>>

\* ExcelUploadService._get_column_letter(col_idx)
UploadColumnLetter ==
    /\ call.pc = "letters" /\ call.parser = ""
    /\ call' = [call EXCEPT !.parser = Upload_get_column_letter(call.col_idx)]
    /\ UNCHANGED <<dest, tables, tmpfiles, up, nuploads, ex, hist>>

NextLetters ==
    \/ GeneratorColumnLetter
    \/ UploadColumnLetter

SpecLetters == InitLetters /\ [][NextLetters]_vars

\* the r-th row the store returns, as fetch_data hands it to the writer
FetchedRow(r, fields) ==
    RowDict([id |-> PyInt(r),
             paid |-> CASE r % 3 = 0 -> PyNone
                        [] r % 3 = 1 -> PyBool(TRUE)
                        [] OTHER -> PyBool(FALSE)],
            fields, 1, <<>>)

FetchedRows(n, fields) == [r \in 1..n |-> FetchedRow(r, fields)]

\* the calls of the writer: row counts around one and two small chunks on
\* one and two fields, and up to MaxWriterRows rows on one field
WriterInputs ==
    {<<n, f>> : n \in {0, 1, 2, SlowChunk - 1, SlowChunk, SlowChunk + 1, 2 * SlowChunk + 1},
                f \in {<<"id">>, <<"paid">>, <<"paid", "id">>}}
        \cup {<<MaxWriterRows, <<"id">>>>}

\* a slice that takes one row more than the chunk size
ChunkSliceOneMore(data, i, chunk_size) ==
    SubSeq(data, i + 1, IF i + chunk_size + 1 < Len(data) THEN i + chunk_size + 1
                        ELSE Len(data))

\* data[i:i + chunk_size]
ChunkSlice(data, i, chunk_size) ==
    SubSeq(data, i + 1, IF i + chunk_size < Len(data) THEN i + chunk_size ELSE Len(data))

\* for row_data in chunk, over chunk[lo..hi] in order: [ws, row_idx]; the
\* rows are folded left to right, the recursion splits the range in halves
\* (the test on left.row_idx has the left half evaluated before the right one
\* is entered; both branches are the same expression)
RECURSIVE WriteChunkRows(_, _, _, _, _, _)
WriteChunkRows(ws, chunk, fields, lo, hi, row_idx) ==
    IF lo > hi THEN [ws |-> ws, row_idx |-> row_idx]
    ELSE IF lo = hi
    THEN [ws |-> WriteRow(ws, chunk[lo], fields, row_idx, 0), row_idx |-> row_idx + 1]
    ELSE LET mid == (lo + hi) \div 2
             left == WriteChunkRows(ws, chunk, fields, lo, mid, row_idx)
         IN  IF left.row_idx > row_idx
             THEN WriteChunkRows(left.ws, chunk, fields, mid + 1, hi, left.row_idx)
             ELSE WriteChunkRows(left.ws, chunk, fields, mid + 1, hi, left.row_idx)

\* _write_data_to_worksheet(worksheet, data, fields, fast_mode) on a new sheet
WriterCall(n, fields, fast_mode) ==
    [pc |-> "headers", n |-> n, fields |-> fields, fast_mode |-> fast_mode,
     ws |-> EmptySheet, chunk_size |-> 0, i |-> 0, row_idx |-> 0,
     first |-> [valid |-> FALSE, ws |-> EmptySheet]]

InitWriter ==
    /\ Quiet
    /\ \E w \in WriterInputs : call = WriterCall(w[1], w[2], TRUE)

\* the header row, chunk_size and row_idx = 2
WriterHeaders ==
    /\ call.pc = "headers"
    /\ call' = [call EXCEPT !.pc = "chunk",
                            !.ws = WriteHeaders(call.ws, call.fields, 0),
                            !.chunk_size = IF call.fast_mode THEN FastChunk ELSE SlowChunk,
                            !.i = 0,
                            !.row_idx = 2]
    /\ UNCHANGED <<dest, tables, tmpfiles, up, nuploads, ex, hist>>

\* one pass of for i in range(0, len(data), chunk_size): the rows of the chunk
WriterChunk ==
    /\ call.pc = "chunk"
    /\ call.i < call.n
    /\ LET chunk == ChunkSlice(FetchedRows(call.n, call.fields), call.i, call.chunk_size)
           w == WriteChunkRows(call.ws, chunk, call.fields, 1, Len(chunk), call.row_idx)
       IN  call' = [call EXCEPT !.ws = w.ws, !.row_idx = w.row_idx,
                                !.i = @ + call.chunk_size]
    /\ UNCHANGED <<dest, tables, tmpfiles, up, nuploads, ex, hist>>

\* the range is exhausted: the column widths, and the return
WriterReturn ==
    /\ call.pc = "chunk"
    /\ call.i >= call.n
    /\ call' = [call EXCEPT !.pc = "done"]
    /\ UNCHANGED <<dest, tables, tmpfiles, up, nuploads, ex, hist>>

\* the same data written again to a new sheet with fast_mode False
WriterAgainSlow ==
    /\ call.pc = "done"
    /\ call.fast_mode
    /\ call' = [WriterCall(call.n, call.fields, FALSE)
                  EXCEPT !.first = [valid |-> TRUE, ws |-> call.ws]]
    /\ UNCHANGED <<dest, tables, tmpfiles, up, nuploads, ex, hist>>

NextWriter ==
    \/ WriterHeaders
    \/ WriterChunk
    \/ WriterReturn
    \/ WriterAgainSlow

SpecWriter == InitWriter /\ [][NextWriter]_vars

\* a template sheet of three columns: a header row and the stale cells at
\* the positions filled, a set of <<row, column>>
TemplateSheet(filled, nrows) ==
    [rows |-> nrows,
     cols |-> 3,
     cells |-> [a \in {Letters[c] \o "1" : c \in 1..3} |-> "head"]
                 @@ [a \in {Letters[p[2]] \o IntStr(p[1]) : p \in filled} |-> "stale"]]

\* stale cells in columns A and B around the minimum scan depth, with or
\* without a stale cell in column C; and a column of MaxTemplateRows stale cells
ClearTemplates ==
    {TemplateSheet(f \cup g, ClearMinScan + 4) :
        f \in SUBSET {<<r, c>> : r \in {2, ClearMinScan + 1, ClearMinScan + 2, ClearMinScan + 3},
                                 c \in 1..2},
        g \in {{}, {<<2, 3>>}}}
    \cup {TemplateSheet({<<r, 1>> : r \in 2..MaxTemplateRows}, MaxTemplateRows)}

\* _clear_data_preserve_format(worksheet, num_columns) after WorkBook.Load
InitClear ==
    /\ Quiet
    /\ \E t \in ClearTemplates, k \in 1..2 :
          call = [pc |-> "clear", template |-> t, ws |-> t, num_columns |-> k,
                  row_index |-> 1, broke |-> FALSE]

\* one pass of for row_index in range(1, 2000) that does not break
ClearScanRow ==
    /\ call.pc = "clear"
    /\ call.row_index < ClearRowLimit
    /\ LET r == ClearRow(call.ws, call.row_index, 0, call.num_columns, TRUE)
       IN  /\ ~(r.all_empty /\ call.row_index > ClearMinScan)
           /\ call' = [call EXCEPT !.ws = r.ws, !.row_index = @ + 1]
    /\ UNCHANGED <<dest, tables, tmpfiles, up, nuploads, ex, hist>>

\* if all_empty and row_index > 15: break
ClearBreak ==
    /\ call.pc = "clear"
    /\ call.row_index < ClearRowLimit
    /\ LET r == ClearRow(call.ws, call.row_index, 0, call.num_columns, TRUE)
       IN  /\ r.all_empty /\ call.row_index > ClearMinScan
           /\ call' = [call EXCEPT !.pc = "done", !.ws = r.ws, !.broke = TRUE]
    /\ UNCHANGED <<dest, tables, tmpfiles, up, nuploads, ex, hist>>

\* the range is exhausted
ClearReturn ==
    /\ call.pc = "clear"
    /\ call.row_index >= ClearRowLimit
    /\ call' = [call EXCEPT !.pc = "done"]
    /\ UNCHANGED <<dest, tables, tmpfiles, up, nuploads, ex, hist>>

NextClear ==
    \/ ClearScanRow
    \/ ClearBreak
    \/ ClearReturn

SpecClear == InitClear /\ [][NextClear]_vars

\* the workbooks handed to the parser: two columns, up to MaxParseRows data rows
ParseSheets ==
    {SheetOfGrid(g) : g \in Grids(Len(DestColumns), MaxParseRows, HeaderCells, {"", "1"})}

\* _read_excel_file_ironxl(excel_data)
InitParse ==
    /\ Quiet
    /\ \E ws \in ParseSheets :
          call = [pc |-> "parse", file |-> ws,
                  result |-> [ok |-> FALSE, rows |-> <<>>, headers |-> <<>>,
                              error |-> "", detail |-> ""]]

\* the parser returns the rows or raises ValidationError
ParseFile ==
    /\ call.pc = "parse"
    /\ call' = [call EXCEPT !.pc = "done", !.result = ReadExcel(call.file)]
    /\ UNCHANGED <<dest, tables, tmpfiles, up, nuploads, ex, hist>>

NextParse == ParseFile

SpecParse == InitParse /\ [][NextParse]_vars

(***************************************************************************)
(* Properties                                                              *)
(***************************************************************************)
CellOf(ws, r, c) == ws.cells[Letters[c] \o IntStr(r)]

Done(u) == up[u].pc = "done"

Failed(u) == Done(u) /\ up[u].outcome = "returned" /\ ~up[u].result.success

Succeeded(u) == Done(u) /\ up[u].outcome = "returned" /\ up[u].result.success

\* what the staging table of an upload holds when no other upload touches it
OwnStaging(s) ==
    CopyInto([cols |-> s.fieldnames, rows |-> <<>>], s.fieldnames,
             CsvLines(s.rows, s.fieldnames))

\* C1: when upload_excel_to_table returns from an upload that created its
\* staging table, that staging table no longer exists (every exit path).
C1_StagingDroppedOnEveryExit ==
    \A u \in Uploaders :
        Done(u) /\ hist.staged[u] => StagingName(TableName) \notin DOMAIN tables

\* C2: upload_excel_to_table never raises: a failure at any stage returns
\* success=false with a message, a row count and a non-empty errors list, and
\* a success returns rows_processed equal to the number of parsed rows.
C2_UploadAlwaysReturnsResult ==
    \A u \in Uploaders :
        Done(u) =>
            /\ up[u].outcome = "returned"
            /\ IF up[u].result.success
               THEN /\ ReadExcel(up[u].file).ok
                    /\ up[u].result.rows_processed = Len(ReadExcel(up[u].file).rows)
               ELSE /\ up[u].result.message # ""
                    /\ up[u].result.rows_processed \in Nat
                    /\ Len(up[u].result.errors) >= 1

\* C2 witness: the final drop of the staging table failed after the merge
C2_Witness ==
    Failed(1) /\ up[1].caught = "DBAPIError" /\ hist.merged[1]

\* C3 as stated: an upload that returns success=false leaves the destination
\* table exactly as it was before the upload.
C3_FailureLeavesDestinationUntouched ==
    \A u \in {1} : Failed(u) => dest = hist.start[u]

\* C3 amended: an upload that returns success=false leaves the destination as
\* it was before the upload unless the failing stage is the final drop of the
\* staging table, which runs after the merge committed: then the destination
\* holds the complete merge of the staged rows. It is never half-applied.
C3_FailureIsAllOrNothing ==
    \A u \in {1} :
        Failed(u) =>
            IF hist.merged[u]
            THEN dest = Merge(hist.start[u], OwnStaging(up[u]), up[u].fieldnames,
                              ConflictColumns)
            ELSE dest = hist.start[u]

\* C3 witness: the merge statement itself was rejected, after the staging
\* table was created and loaded with more than one row
C3_Witness ==
    /\ Failed(1) /\ hist.staged[1] /\ ~hist.merged[1] /\ ~hist.fault[1]
    /\ Len(up[1].rows) > 1
    /\ StagingName(TableName) \in DOMAIN tables
    /\ Len(tables[StagingName(TableName)].rows) > 1

UniqueKeys(rows) == \A r1, r2 \in rows : KeyOf(r1, DestKey) = KeyOf(r2, DestKey) => r1 = r2

\* the row of the destination a parsed row stands for
Represented(rows, row, fieldnames) ==
    \E d \in rows :
        \A k \in 1..Len(fieldnames) :
            LET f == DictGet(row, fieldnames[k], "")
            IN  d[fieldnames[k]] =
                    CastText(IF f = "" THEN PyNone ELSE PyStr(f),
                             get_column_db_type(TableName, fieldnames[k])).v

\* C4: uploading the same file a second time after a successful upload leaves
\* the destination with the same rows as after the first upload; no id is
\* duplicated, and after a successful upload every row of the file is in the
\* destination with the file's value in every column.
C4_UploadIsIdempotentUpsert ==
    /\ UniqueKeys(dest)
    /\ \A u \in {1} :
        /\ Succeeded(u) =>
              \A r \in 1..Len(up[u].rows) : Represented(dest, up[u].rows[r], up[u].fieldnames)
        /\ Done(u) /\ hist.prev.valid /\ hist.prev.success => dest = hist.prev.dest

\* C4 witness: the second upload of the file succeeded after the first did,
\* and a row that existed before was updated rather than added
C4_Witness ==
    /\ Succeeded(1) /\ hist.prev.valid /\ hist.prev.success /\ hist.merged[1]
    /\ Len(up[1].rows) = Cardinality(dest)
    /\ Cardinality(dest) > 1

\* C9: every value of every parsed row is the value of a data cell in a
\* column whose first-row cell is the key it is stored under.
C9_CellsKeyedBySameColumnHeader ==
    \A u \in Uploaders :
        \A r \in 1..Len(up[u].rows) : \A k \in 1..Len(up[u].rows[r]) :
            \E sr \in 2..up[u].file.rows : \E c \in 1..up[u].file.cols :
                /\ Strip(CellOf(up[u].file, 1, c)) = up[u].rows[r][k][1]
                /\ Strip(CellOf(up[u].file, sr, c)) = up[u].rows[r][k][2]

FirstRowBlank(ws) ==
    ws.rows >= 1 /\ \A c \in 1..ws.cols : Strip(CellOf(ws, 1, c)) = ""

\* C10: an upload whose first row has no non-blank cell returns success=false
\* with rows_processed=0 from the parser's ValidationError; no staging table
\* is created and no table is written.
C10_BlankHeaderRowFailsBeforeAnyWrite ==
    \A u \in Uploaders :
        FirstRowBlank(up[u].file) =>
            /\ ~hist.created[u] /\ ~hist.merged[u]
            /\ tables = <<>>
            /\ up[u].pc \notin {"idle", "read"} =>
                  /\ Failed(u)
                  /\ up[u].caught = "ValidationError"
                  /\ up[u].result.rows_processed = 0
                  /\ dest = hist.start[u]

\* C10 witness: the file has data cells under the blank first row
C10_Witness ==
    /\ Failed(1) /\ FirstRowBlank(up[1].file)
    /\ up[1].file.rows > 1
    /\ \E c \in 1..up[1].file.cols : Strip(CellOf(up[1].file, 2, c)) # ""

\* C5: a full-table export uploaded into an empty table of the same schema
\* succeeds and reproduces the rows of the exported table (no store fault).
C5_RoundTripReproducesRows ==
    Done(1) /\ hist.orig.valid /\ hist.orig.rows # {} /\ ~hist.fault[1] =>
        Succeeded(1) /\ dest = hist.orig.rows

\* C6: generate_excel with a requested field that is no column of the table
\* raises ValidationError naming exactly the invalid fields, with no row
\* fetch issued and no workbook loaded or created.
C6_InvalidFieldsRaiseValidationError ==
    /\ ex.pc = "done" /\ ex.kind = "fields" /\ ex.table = TableName
    /\ InvalidFields(ex.fields, DestColumns) # <<>>
    => /\ ex.outcome = "raised"
       /\ ex.error.cls = "ValidationError"
       /\ ex.error.msg = "Error generando Excel: Campos inválidos para tabla " \o ex.table
                           \o ": " \o ListRepr(InvalidFields(ex.fields, DestColumns))
       /\ ex.fetches = 0
       /\ ex.workbooks = 0

\* the stringification C8 states
StatedFormat(v) ==
    CASE v.t = "none" -> ""
      [] v.t = "bool" -> (IF v.i = 1 THEN "Sí" ELSE "No")
      [] v.t = "int" -> IntStr(v.i)
      [] v.t = "float" -> FloatStr(v.i)
      [] OTHER -> v.s

\* C8: every cell the writer fills holds the stated string of its value:
\* empty for None, "Sí"/"No" for a boolean, the decimal form of a number,
\* the string form of anything else.
C8_CellsHoldStatedFormat ==
    ex.pc = "done" /\ ex.outcome = "returned" =>
        \A r \in 1..Len(ex.data) : \A j \in 1..Len(ex.fields) :
            CellValue(ex.bytes, Letters[j] \o IntStr(r + 1)) =
                StatedFormat(DictGet(ex.data[r], ex.fields[j], PyStr("")))

Other(u) == CHOOSE v \in Uploaders : v # u

\* C7: two uploads to the same table in flight share one staging table (there
\* is never a second one), and a merge reads something else than the rows of
\* its own file only after the other upload created the staging table anew.
C7_ConcurrentUploadsShareStaging ==
    /\ Cardinality(DOMAIN tables) <= 1
    /\ \A u \in Uploaders :
          hist.merged[u] /\ hist.read[u] # OwnStaging(up[u]) => hist.created[Other(u)]

\* C7 witness: the other upload dropped and recreated the staging table after
\* this upload created it, and this upload's merge read a table that does not
\* hold exactly its own rows
C7_Witness ==
    \E u \in Uploaders :
        /\ hist.merged[u] /\ hist.created[u]
        /\ hist.read[u] # OwnStaging(up[u])
        /\ Len(OwnStaging(up[u]).rows) > 0

\* the standard letters-to-index function: A is 1, Z is 26, base 26, minus one
RECURSIVE LettersToIndexLoop(_, _, _)
LettersToIndexLoop(label, k, acc) ==
    IF k > Len(label) THEN acc - 1
    ELSE LettersToIndexLoop(label, k + 1,
            acc * 26 + (CHOOSE d \in 1..26 : Letters[d] = SubSeq(label, k, k)))

LettersToIndex(label) == LettersToIndexLoop(label, 1, 0)

\* C11: the label of column index i decodes back to i, the labels of distinct
\* indices differ, 0, 25, 26, 701, 702 give A, Z, AA, ZZ, AAA, and the export
\* writer's copy and the parser's copy return the same label.
C11_ColumnLettersAreBijectiveBase26 ==
    call.pc = "letters" =>
        /\ call.writer # "" =>
              /\ LettersToIndex(call.writer) = call.col_idx
              /\ \A j \in 0..MaxColumn :
                    j # call.col_idx => Generator_get_column_letter(j) # call.writer
              /\ call.col_idx = 0 => call.writer = "A"
              /\ call.col_idx = 25 => call.writer = "Z"
              /\ call.col_idx = 26 => call.writer = "AA"
              /\ call.col_idx = 701 => call.writer = "ZZ"
              /\ call.col_idx = 702 => call.writer = "AAA"
        /\ call.parser # "" => LettersToIndex(call.parser) = call.col_idx
        /\ call.writer # "" /\ call.parser # "" => call.writer = call.parser

\* C11 witness: both copies labelled the first three-letter column
C11_Witness ==
    /\ call.pc = "letters" /\ call.col_idx = 702
    /\ call.writer = "AAA" /\ call.parser = "AAA"

\* C12: when no request is in flight no temporary file is left: every
\* temporary file a request created is deleted by the time the request
\* returns, whether it succeeded or failed.
C12_TempFilesDeletedOnReturn ==
    /\ \A u \in Uploaders : up[u].pc \in {"idle", "done"}
    /\ ex.pc \in {"idle", "done"}
    => tmpfiles = {}

\* C13: after the writer ran on n rows and k fields, row 1 holds the field
\* names in request order, sheet row r+2 holds in column j the formatted value
\* of field j of fetched row r, nothing is written beyond row n+1, and the
\* sheet written with chunks of 1000 equals the sheet written with chunks of
\* 10000.
C13_WriterLayoutIndependentOfChunking ==
    call.pc = "done" =>
        /\ \A j \in 1..Len(call.fields) :
              CellValue(call.ws, Generator_get_column_letter(j - 1) \o "1") = call.fields[j]
        /\ \A r \in 1..call.n : \A j \in 1..Len(call.fields) :
              CellValue(call.ws, Generator_get_column_letter(j - 1) \o IntStr(r + 1)) =
                  format_cell_value(DictGet(FetchedRow(r, call.fields), call.fields[j],
                                            PyStr("")))
        /\ call.ws.rows <= call.n + 1
        /\ Cardinality(DOMAIN call.ws.cells) = Len(call.fields) * (call.n + 1)
        /\ call.first.valid => call.ws = call.first.ws

\* C13 witness: both runs needed more than one chunk, and the row after the
\* first chunk of 10000 is on the sheet
C13_Witness ==
    /\ call.pc = "done" /\ ~call.fast_mode /\ call.first.valid
    /\ call.n > FastChunk /\ call.i > FastChunk
    /\ CellValue(call.ws, "A" \o IntStr(FastChunk + 2)) # ""

\* the row has no non-empty cell in its first ncols columns
RowAllEmpty(ws, r, ncols) ==
    \A c \in 1..ncols : CellValue(ws, Letters[c] \o IntStr(r)) = ""

\* the first all-empty sheet row after the minimum scan depth (sheet row
\* ClearMinScan + 2 is the first row scanned past it), or the row after the
\* last row cleared if there is none
StopRow(ws, ncols) ==
    IF \E r \in (ClearMinScan + 2)..ClearRowLimit : RowAllEmpty(ws, r, ncols)
    THEN CHOOSE r \in (ClearMinScan + 2)..ClearRowLimit :
            /\ RowAllEmpty(ws, r, ncols)
            /\ \A q \in (ClearMinScan + 2)..(r - 1) : ~RowAllEmpty(ws, q, ncols)
    ELSE ClearRowLimit + 1

\* C14: after clearing, every non-empty data cell the template had in rows
\* 2..2000 is empty unless it lies below the first all-empty row found after
\* the minimum scan depth of 15 rows; the clearing does not stop within the
\* first 15 scanned rows; the header row is as it was.
C14_ClearingEmptiesTemplateData ==
    call.pc = "done" =>
        /\ LET stop == StopRow(call.template, call.template.cols)
           IN  \A r \in 2..ClearRowLimit : \A c \in 1..call.template.cols :
                  /\ r <= call.template.rows
                  /\ r < stop
                  /\ CellValue(call.template, Letters[c] \o IntStr(r)) # ""
                  => CellValue(call.ws, Letters[c] \o IntStr(r)) = ""
        /\ call.broke => call.row_index > ClearMinScan
        /\ \A c \in 1..call.template.cols :
              CellValue(call.ws, Letters[c] \o "1") = CellValue(call.template, Letters[c] \o "1")

\* C15: in a sequence of uploads that do not overlap, the staging table is
\* empty with the upload's own columns when the bulk-load starts, and the
\* rows the merge reads are exactly the rows of the upload's own file.
C15_MergeReadsOwnRowsOnly ==
    \A u \in Uploaders :
        /\ up[u].pc = "copy" =>
              /\ StagingName(TableName) \in DOMAIN tables
              /\ tables[StagingName(TableName)] = [cols |-> up[u].fieldnames, rows |-> <<>>]
        /\ up[u].pc = "merge" =>
              /\ StagingName(TableName) \in DOMAIN tables
              /\ tables[StagingName(TableName)] = OwnStaging(up[u])
        /\ hist.merged[u] => hist.read[u] = OwnStaging(up[u])

\* C15 witness: the first upload's merge was rejected and left its loaded
\* staging table behind; the second upload, of a file with other columns,
\* merged and succeeded
C15_Witness ==
    /\ Failed(1) /\ up[1].caught = "DBAPIError" /\ ~hist.fault[1]
    /\ hist.staged[1] /\ ~hist.merged[1]
    /\ up[1].fieldnames # up[2].fieldnames
    /\ Len(OwnStaging(up[1]).rows) > 0
    /\ hist.merged[2] /\ Succeeded(2)

\* the sheet row has a non-blank cell under a non-blank header
HasCellUnderHeader(ws, r) ==
    \E c \in 1..ws.cols : Strip(CellOf(ws, 1, c)) # "" /\ Strip(CellOf(ws, r, c)) # ""

RowAllBlank(ws, r) == \A c \in 1..ws.cols : Strip(CellOf(ws, r, c)) = ""

\* the first all-blank row after a row with a cell under a header, or the
\* row after the last
StoppingRow(ws) ==
    LET stops == {r \in 2..ws.rows :
                    RowAllBlank(ws, r) /\ \E q \in 2..(r - 1) : HasCellUnderHeader(ws, q)}
    IN  IF stops = {} THEN ws.rows + 1
        ELSE CHOOSE r \in stops : \A q \in stops : r <= q

\* the sheet rows the parser is stated to return, in sheet order
StatedRows(ws) ==
    SelectSeq([k \in 1..(StoppingRow(ws) - 2) |-> k + 1],
              LAMBDA r : HasCellUnderHeader(ws, r))

\* C16: the parser returns, in sheet order, one row for each sheet row after
\* row 1 that has a non-blank cell under a non-blank header and lies before
\* the first all-blank row that follows such a row; with no such row it
\* raises ValidationError.
C16_ParserReturnsRowsUpToBlankRow ==
    call.pc = "done" =>
        LET stated == StatedRows(call.file)
        IN  IF stated = <<>>
            THEN ~call.result.ok /\ call.result.error = "ValidationError"
            ELSE /\ call.result.ok
                 /\ Len(call.result.rows) = Len(stated)
                 /\ \A k \in 1..Len(stated) :
                       /\ call.result.rows[k] # <<>>
                       /\ \A p \in 1..Len(call.result.rows[k]) :
                             \E c \in 1..call.file.cols :
                                 Strip(CellOf(call.file, stated[k], c)) =
                                     call.result.rows[k][p][2]

\* a row after the first carries a key that the first row lacks
LaterRowHasExtraKey(rows) ==
    \E r \in 2..Len(rows) : ~(DictKeySet(rows[r]) \subseteq DictKeySet(rows[1]))

====
